---- MODULE Spec2Model ----
(***************************************************************************)
(* Model of the MessageCacheApp screen, src/app/(tabs)/index.tsx:          *)
(* the bounded recency cache held in React state, the startup load from    *)
(* AsyncStorage and the write-back issued by every insert.                  *)
(*                                                                         *)
(* Strings are sequences of one-character strings, so that trim(),         *)
(* Date.now().toString() and the JSON encoding are computed, not assumed.  *)
(* A JS value held in `messages` or returned by JSON.parse is a record     *)
(* [kind, items]: kind "array" is a list, kind "object" stands for every   *)
(* parsed value that is not iterable (object, number, boolean, null).      *)
(* The string kept by the store is a record [kind, items] too: "null" (no  *)
(* value under the key), "empty" (the empty string), "bad" (text that is   *)
(* not JSON), "object" (JSON that is not an array) and "array" (a JSON     *)
(* array, items being the encoded elements).                               *)
(*                                                                         *)
(* React flushes the state updates of a press handler before the next      *)
(* press is delivered, so a handler always closes over the current state;  *)
(* the state variables are therefore updated in place.                     *)
(***************************************************************************)
EXTENDS Integers, Sequences, FiniteSets

MESSAGES_STORAGE_KEY == "cached_messages"
MAX_MESSAGES == 5

\* ---- bounds of the model ----
MaxClock == 1
MaxCreated == 6
MaxPending == 2
MaxStoredLen == 6

VARIABLES
    messages,        \* useState<MessageCache>([])
    newMessage,      \* useState('')
    loading,         \* useState(true)
    store,           \* what AsyncStorage holds under MESSAGES_STORAGE_KEY
    loadpc,          \* position of loadMessagesFromStorage
    pendingWrites,   \* setItem calls issued and not yet settled, in issue order
    now,             \* the reading of Date.now()
    alertVisible,    \* the Alert.alert dialog is on screen
    consoleErrors,   \* the set of console.error prefixes logged
    uncaught,        \* operations whose promise rejected (exception escaped)
    created,         \* history: the Message objects constructed, in order
    getItemCalls,    \* number of AsyncStorage.getItem calls
    setItemCalls,    \* number of AsyncStorage.setItem calls
    setItemFailed,   \* some setItem promise rejected
    persistFailed,   \* some saveMessagesToStorage promise rejected
    cacheAtLoad,     \* history: the cache at the moment loading ended
    lastWrite,       \* history: state of the setItem issued last
    reordered        \* history: a setItem settled before one issued earlier

vars == <<messages, newMessage, loading, store, loadpc, pendingWrites, now,
          alertVisible, consoleErrors, uncaught, created, getItemCalls,
          setItemCalls, setItemFailed, persistFailed, cacheAtLoad,
          lastWrite, reordered>>

writeVars == <<lastWrite, reordered>>

\* ---- helpers ----
Min(a, b) == IF a < b THEN a ELSE b

\* Array.prototype.slice(0, n)
Slice(s, n) == SubSeq(s, 1, Min(n, Len(s)))

Reverse(s) == [i \in 1..Len(s) |-> s[Len(s) + 1 - i]]

\* the last n elements of s, in their order
LastN(s, n) == SubSeq(s, Len(s) - Min(n, Len(s)) + 1, Len(s))

\* ---- String.prototype.trim ----
Whitespace == {" ", "\t", "\n"}

RECURSIVE TrimStart(_)
TrimStart(s) ==
    IF s = <<>> THEN <<>>
    ELSE IF Head(s) \in Whitespace THEN TrimStart(Tail(s))
    ELSE s

RECURSIVE TrimEnd(_)
TrimEnd(s) ==
    IF s = <<>> THEN <<>>
    ELSE IF s[Len(s)] \in Whitespace THEN TrimEnd(SubSeq(s, 1, Len(s) - 1))
    ELSE s

Trim(s) == TrimEnd(TrimStart(s))

\* ---- Number.prototype.toString and its inverse in JSON.parse ----
Digits == <<"0", "1", "2", "3", "4", "5", "6", "7", "8", "9">>

RECURSIVE ToString(_)
ToString(n) ==
    IF n < 10 THEN <<Digits[n + 1]>>
    ELSE ToString(n \div 10) \o <<Digits[(n % 10) + 1]>>

DigitValue(c) == (CHOOSE i \in 1..10 : Digits[i] = c) - 1

RECURSIVE ParseNumber(_)
ParseNumber(s) ==
    IF Len(s) = 1 THEN DigitValue(s[1])
    ELSE 10 * ParseNumber(SubSeq(s, 1, Len(s) - 1)) + DigitValue(s[Len(s)])

\* ---- JSON string literals ----
Backslash == "\\"
Quote == "\""

EscapeChar(c) ==
    IF c = Quote THEN <<Backslash, Quote>>
    ELSE IF c = Backslash THEN <<Backslash, Backslash>>
    ELSE IF c = "\n" THEN <<Backslash, "n">>
    ELSE IF c = "\t" THEN <<Backslash, "t">>
    ELSE <<c>>

RECURSIVE Escape(_)
Escape(s) == IF s = <<>> THEN <<>> ELSE EscapeChar(Head(s)) \o Escape(Tail(s))

UnescapeChar(c) == IF c = "n" THEN "\n" ELSE IF c = "t" THEN "\t" ELSE c

RECURSIVE Unescape(_)
Unescape(s) ==
    IF s = <<>> THEN <<>>
    ELSE IF Head(s) = Backslash
         THEN <<UnescapeChar(s[2])>> \o Unescape(SubSeq(s, 3, Len(s)))
         ELSE <<Head(s)>> \o Unescape(Tail(s))

\* ---- Message and the JS values ----
IsMessage(e) == DOMAIN e = {"id", "text", "timestamp"}

\* an array element that is not a Message (a number, a nested object, ...)
Junk == [junk |-> 7]

EmptyArray == [kind |-> "array", items |-> <<>>]

\* ---- JSON.stringify / JSON.parse ----
StringifyElement(e) ==
    IF IsMessage(e)
    THEN [id |-> Escape(e.id), text |-> Escape(e.text),
          timestamp |-> ToString(e.timestamp)]
    ELSE e

ParseElement(e) ==
    IF IsMessage(e)
    THEN [id |-> Unescape(e.id), text |-> Unescape(e.text),
          timestamp |-> ParseNumber(e.timestamp)]
    ELSE e

JSONStringify(v) ==
    [kind |-> v.kind,
     items |-> [i \in 1..Len(v.items) |-> StringifyElement(v.items[i])]]

\* defined for the strings on which JSON.parse returns
JSONParse(str) ==
    [kind |-> str.kind,
     items |-> [i \in 1..Len(str.items) |-> ParseElement(str.items[i])]]

\* JSON.parse throws SyntaxError
ParseThrows(str) == str.kind = "bad"

\* `if (storedMessages)`: null and the empty string are falsy
Truthy(str) == str.kind \notin {"null", "empty"}

\* ---- the values the store may hold at startup ----
StoredMessage(i) ==
    [id |-> ToString(i), text |-> <<"m", Digits[i + 1]>>,
     timestamp |-> ToString(i)]

StoredArray(n) == [kind |-> "array", items |-> [i \in 1..n |-> StoredMessage(i)]]

StartupValues ==
    { [kind |-> "null", items |-> <<>>],
      [kind |-> "empty", items |-> <<>>],
      [kind |-> "bad", items |-> <<>>],
      [kind |-> "object", items |-> <<>>],
      [kind |-> "array", items |-> <<Junk>>] }
    \cup { StoredArray(n) : n \in {0, 1, MaxStoredLen} }

\* ---- the texts the user may type ----
Inputs ==
    { <<" ", "\n">>,
      <<" ", "a", "\n", Quote, "\t">> }

\* ---- Init: the first render ----
Init ==
    /\ messages = EmptyArray
    /\ newMessage = <<>>
    /\ loading = TRUE
    /\ store \in StartupValues
    /\ loadpc = "mount"
    /\ pendingWrites = <<>>
    /\ now = 0
    /\ alertVisible = FALSE
    /\ consoleErrors = {}
    /\ uncaught = {}
    /\ created = <<>>
    /\ getItemCalls = 0
    /\ setItemCalls = 0
    /\ setItemFailed = FALSE
    /\ persistFailed = FALSE
    /\ cacheAtLoad = EmptyArray
    /\ lastWrite = "none"
    /\ reordered = FALSE

\* variant of useEffect without the empty dependency list: the effect runs
\* again after a render
useEffectEveryRender ==
    /\ loadpc \in {"mount", "done", "failed"}
    /\ getItemCalls < 2
    /\ loadpc' = "reading"
    /\ getItemCalls' = getItemCalls + 1
    /\ UNCHANGED <<messages, newMessage, loading, store, pendingWrites, now,
                   alertVisible, consoleErrors, uncaught, created,
                   setItemCalls, setItemFailed, persistFailed, cacheAtLoad>>
    /\ UNCHANGED writeVars

\* ---- useEffect(() => { loadMessagesFromStorage(); }, []) ----
\* runs loadMessagesFromStorage up to `await AsyncStorage.getItem(...)`
useEffect ==
    /\ loadpc = "mount"
    /\ loadpc' = "reading"
    /\ getItemCalls' = getItemCalls + 1
    /\ UNCHANGED <<messages, newMessage, loading, store, pendingWrites, now,
                   alertVisible, consoleErrors, uncaught, created,
                   setItemCalls, setItemFailed, persistFailed, cacheAtLoad>>
    /\ UNCHANGED writeVars

\* variant of LoadedMessages that turns the stored list around
LoadedMessagesReversed(str, msgs) ==
    IF Truthy(str) /\ ~ParseThrows(str)
    THEN [kind |-> str.kind,
          items |-> [i \in 1..Len(str.items) |->
                        ParseElement(str.items[Len(str.items) + 1 - i])]]
    ELSE msgs

\* variant of LoadedMessages without `if (storedMessages)`
LoadedMessagesNoCheck(str, msgs) ==
    IF ~ParseThrows(str) THEN JSONParse(str) ELSE msgs

\* the cache after the try block of loadMessagesFromStorage ran on the
\* string the read resolved with
LoadedMessages(str, msgs) ==
    IF Truthy(str) /\ ~ParseThrows(str) THEN JSONParse(str) ELSE msgs

\* what the catch block of loadMessagesFromStorage logs
LoadErrors(str) ==
    IF Truthy(str) /\ ParseThrows(str) THEN {"Error loading messages:"} ELSE {}

\* variant of loadResolved with setLoading(false) at the end of the try
\* block instead of a finally block
loadResolvedNoFinally ==
    /\ loadpc = "reading"
    /\ messages' = LoadedMessages(store, messages)
    /\ consoleErrors' = consoleErrors \cup LoadErrors(store)
    /\ loading' = (Truthy(store) /\ ParseThrows(store))
    /\ loadpc' = "done"
    /\ cacheAtLoad' = messages'
    /\ UNCHANGED <<newMessage, store, pendingWrites, now, alertVisible,
                   uncaught, created, getItemCalls, setItemCalls,
                   setItemFailed, persistFailed>>
    /\ UNCHANGED writeVars

\* variant of loadResolved whose catch block writes "[]" back
loadResolvedResets ==
    /\ loadpc = "reading"
    /\ messages' = LoadedMessages(store, messages)
    /\ consoleErrors' = consoleErrors \cup LoadErrors(store)
    /\ loading' = FALSE
    /\ loadpc' = "done"
    /\ cacheAtLoad' = messages'
    /\ IF Truthy(store) /\ ParseThrows(store)
       THEN /\ pendingWrites' =
                  Append(pendingWrites,
                         [key |-> MESSAGES_STORAGE_KEY,
                          value |-> JSONStringify(EmptyArray)])
            /\ setItemCalls' = setItemCalls + 1
            /\ lastWrite' = "pending"
       ELSE UNCHANGED <<pendingWrites, setItemCalls, lastWrite>>
    /\ UNCHANGED <<newMessage, store, now, alertVisible, uncaught, created,
                   getItemCalls, setItemFailed, persistFailed, reordered>>

\* variant of loadResolved that returns before the try block when nothing
\* is stored
loadResolvedEarlyReturn ==
    /\ loadpc = "reading"
    /\ messages' = LoadedMessages(store, messages)
    /\ consoleErrors' = consoleErrors \cup LoadErrors(store)
    /\ loading' = ~Truthy(store)
    /\ loadpc' = "done"
    /\ cacheAtLoad' = messages'
    /\ UNCHANGED <<newMessage, store, pendingWrites, now, alertVisible,
                   uncaught, created, getItemCalls, setItemCalls,
                   setItemFailed, persistFailed>>
    /\ UNCHANGED writeVars

\* getItem resolves: the rest of loadMessagesFromStorage
loadResolved ==
    /\ loadpc = "reading"
    /\ messages' = LoadedMessages(store, messages)
    /\ consoleErrors' = consoleErrors \cup LoadErrors(store)
    /\ loading' = FALSE
    /\ loadpc' = "done"
    /\ cacheAtLoad' = messages'
    /\ UNCHANGED <<newMessage, store, pendingWrites, now, alertVisible,
                   uncaught, created, getItemCalls, setItemCalls,
                   setItemFailed, persistFailed>>
    /\ UNCHANGED writeVars

\* variant of loadRejected with setLoading(false) at the end of the try
\* block instead of a finally block
loadRejectedNoFinally ==
    /\ loadpc = "reading"
    /\ consoleErrors' = consoleErrors \cup {"Error loading messages:"}
    /\ loadpc' = "failed"
    /\ cacheAtLoad' = messages
    /\ UNCHANGED <<messages, newMessage, loading, store, pendingWrites, now,
                   alertVisible, uncaught, created, getItemCalls,
                   setItemCalls, setItemFailed, persistFailed>>
    /\ UNCHANGED writeVars

\* getItem rejects: catch, finally
loadRejected ==
    /\ loadpc = "reading"
    /\ consoleErrors' = consoleErrors \cup {"Error loading messages:"}
    /\ loading' = FALSE
    /\ loadpc' = "failed"
    /\ cacheAtLoad' = messages
    /\ UNCHANGED <<messages, newMessage, store, pendingWrites, now,
                   alertVisible, uncaught, created, getItemCalls,
                   setItemCalls, setItemFailed, persistFailed>>
    /\ UNCHANGED writeVars

\* variant of Interactive without the `if (loading)` early return
InteractiveNoGate == ~alertVisible

\* the input and the Send button are rendered only when loading is false;
\* the Alert dialog is modal
Interactive == ~loading /\ ~alertVisible

\* ---- onChangeText={setNewMessage} ----
onChangeText(t) ==
    /\ Interactive
    /\ newMessage # t
    /\ newMessage' = t
    /\ UNCHANGED <<messages, loading, store, loadpc, pendingWrites, now,
                   alertVisible, consoleErrors, uncaught, created,
                   getItemCalls, setItemCalls, setItemFailed,
                   persistFailed, cacheAtLoad>>
    /\ UNCHANGED writeVars

\* ---- addMessage ----
\* variant of Rejected that forgets trim()
RejectedNoTrim(text) == text = <<>>

\* `!newMessage.trim()`
Rejected(text) == Trim(text) = <<>>

\* variant of NewMessage that keeps the text as typed
NewMessageUntrimmed(text, t1, t2) ==
    [id |-> ToString(t1), text |-> text, timestamp |-> t2]

\* the Message literal of addMessage; t1 and t2 are the two Date.now() reads
NewMessage(text, t1, t2) ==
    [id |-> ToString(t1), text |-> Trim(text), timestamp |-> t2]

\* [message, ...messages] throws TypeError when messages is not iterable
SpreadThrows(msgs) == msgs.kind # "array"

\* variants of UpdatedMessages with a slip in them
UpdatedMessagesKeepLast(message, msgs) ==
    [kind |-> "array", items |-> LastN(<<message>> \o msgs.items, MAX_MESSAGES)]

UpdatedMessagesOffByOne(message, msgs) ==
    [kind |-> "array",
     items |-> Slice(<<message>> \o msgs.items, MAX_MESSAGES + 1)]

UpdatedMessagesAppend(message, msgs) ==
    [kind |-> "array", items |-> Slice(msgs.items \o <<message>>, MAX_MESSAGES)]

\* [message, ...messages].slice(0, MAX_MESSAGES)
UpdatedMessages(message, msgs) ==
    [kind |-> "array", items |-> Slice(<<message>> \o msgs.items, MAX_MESSAGES)]

\* variant of SetItemCall that writes only the newest message
SetItemCallDelta(messagesToSave) ==
    [key |-> MESSAGES_STORAGE_KEY,
     value |-> JSONStringify([kind |-> "array",
                              items |-> Slice(messagesToSave.items, 1)])]

\* the argument of AsyncStorage.setItem in saveMessagesToStorage
SetItemCall(messagesToSave) ==
    [key |-> MESSAGES_STORAGE_KEY, value |-> JSONStringify(messagesToSave)]

addMessageRejected ==
    /\ Interactive
    /\ Rejected(newMessage)
    /\ alertVisible' = TRUE
    /\ UNCHANGED <<messages, newMessage, loading, store, loadpc,
                   pendingWrites, now, consoleErrors, uncaught, created,
                   getItemCalls, setItemCalls, setItemFailed,
                   persistFailed, cacheAtLoad>>
    /\ UNCHANGED writeVars

\* the Message is built, then the spread throws: the promise of addMessage
\* rejects and nobody handles it
addMessageThrows(t2) ==
    /\ Interactive
    /\ ~Rejected(newMessage)
    /\ Len(created) < MaxCreated
    /\ SpreadThrows(messages)
    /\ created' = Append(created, NewMessage(newMessage, now, t2))
    /\ now' = t2
    /\ uncaught' = uncaught \cup {"addMessage"}
    /\ UNCHANGED <<messages, newMessage, loading, store, loadpc,
                   pendingWrites, alertVisible, consoleErrors, getItemCalls,
                   setItemCalls, setItemFailed, persistFailed, cacheAtLoad>>
    /\ UNCHANGED writeVars

\* variant of addMessageAccepted that refuses to insert while a write is
\* pending
addMessageAcceptedWaits(t2) ==
    /\ Interactive
    /\ ~Rejected(newMessage)
    /\ Len(created) < MaxCreated
    /\ pendingWrites = <<>>
    /\ ~SpreadThrows(messages)
    /\ LET message == NewMessage(newMessage, now, t2)
           updatedMessages == UpdatedMessages(message, messages)
       IN /\ created' = Append(created, message)
          /\ messages' = updatedMessages
          /\ pendingWrites' = Append(pendingWrites, SetItemCall(updatedMessages))
    /\ newMessage' = <<>>
    /\ now' = t2
    /\ setItemCalls' = setItemCalls + 1
    /\ UNCHANGED <<loading, store, loadpc, alertVisible, consoleErrors,
                   uncaught, getItemCalls, setItemFailed, persistFailed,
                   cacheAtLoad>>
    /\ lastWrite' = "pending"
    /\ UNCHANGED reordered

\* variant of addMessageAccepted that saves `messages`, the cache of the
\* render, instead of updatedMessages
addMessageAcceptedStale(t2) ==
    /\ Interactive
    /\ ~Rejected(newMessage)
    /\ Len(created) < MaxCreated
    /\ Len(pendingWrites) < MaxPending
    /\ ~SpreadThrows(messages)
    /\ LET message == NewMessage(newMessage, now, t2)
           updatedMessages == UpdatedMessages(message, messages)
       IN /\ created' = Append(created, message)
          /\ messages' = updatedMessages
          /\ pendingWrites' = Append(pendingWrites, SetItemCall(messages))
    /\ newMessage' = <<>>
    /\ now' = t2
    /\ setItemCalls' = setItemCalls + 1
    /\ UNCHANGED <<loading, store, loadpc, alertVisible, consoleErrors,
                   uncaught, getItemCalls, setItemFailed, persistFailed,
                   cacheAtLoad>>
    /\ lastWrite' = "pending"
    /\ UNCHANGED reordered

\* variant of addMessageAccepted without setNewMessage('')
addMessageAcceptedKeepsInput(t2) ==
    /\ Interactive
    /\ ~Rejected(newMessage)
    /\ Len(created) < MaxCreated
    /\ Len(pendingWrites) < MaxPending
    /\ ~SpreadThrows(messages)
    /\ LET message == NewMessage(newMessage, now, t2)
           updatedMessages == UpdatedMessages(message, messages)
       IN /\ created' = Append(created, message)
          /\ messages' = updatedMessages
          /\ pendingWrites' = Append(pendingWrites, SetItemCall(updatedMessages))
    /\ now' = t2
    /\ setItemCalls' = setItemCalls + 1
    /\ UNCHANGED <<newMessage, loading, store, loadpc, alertVisible,
                   consoleErrors, uncaught, getItemCalls, setItemFailed,
                   persistFailed, cacheAtLoad>>
    /\ lastWrite' = "pending"
    /\ UNCHANGED reordered

\* the insert, up to `await AsyncStorage.setItem(...)` in saveMessagesToStorage
addMessageAccepted(t2) ==
    /\ Interactive
    /\ ~Rejected(newMessage)
    /\ Len(created) < MaxCreated
    /\ Len(pendingWrites) < MaxPending
    /\ ~SpreadThrows(messages)
    /\ LET message == NewMessage(newMessage, now, t2)
           updatedMessages == UpdatedMessages(message, messages)
       IN /\ created' = Append(created, message)
          /\ messages' = updatedMessages
          /\ pendingWrites' = Append(pendingWrites, SetItemCall(updatedMessages))
    /\ newMessage' = <<>>
    /\ now' = t2
    /\ setItemCalls' = setItemCalls + 1
    /\ UNCHANGED <<loading, store, loadpc, alertVisible, consoleErrors,
                   uncaught, getItemCalls, setItemFailed, persistFailed,
                   cacheAtLoad>>
    /\ lastWrite' = "pending"
    /\ UNCHANGED reordered

addMessage ==
    \/ addMessageRejected
    \/ \E t2 \in {now, Min(now + 1, MaxClock)} :
          addMessageThrows(t2) \/ addMessageAccepted(t2)

\* ---- saveMessagesToStorage after the await ----
\* variant of PersistRejects without the catch block
PersistRejectsRethrown(setItemRejects) == setItemRejects

\* the promise of saveMessagesToStorage rejects: never, the catch block
\* swallows the rejection of setItem
PersistRejects(setItemRejects) == FALSE

\* what the catch block of saveMessagesToStorage logs
SaveErrors(setItemRejects) ==
    IF setItemRejects THEN {"Error saving messages:"} ELSE {}

\* `await saveMessagesToStorage(updatedMessages)` is the last statement of
\* addMessage and nobody handles the promise of addMessage
AddMessageEscapes(persistRejects) ==
    IF persistRejects THEN {"addMessage"} ELSE {}

\* the state of the setItem issued last once the i-th pending one settled
SettledLast(i, outcome) ==
    IF lastWrite = "pending" /\ i = Len(pendingWrites) THEN outcome
    ELSE lastWrite

RemoveAt(s, i) == SubSeq(s, 1, i - 1) \o SubSeq(s, i + 1, Len(s))

\* the i-th pending setItem resolves: the store takes its value
setItemResolved(i) ==
    /\ i \in 1..Len(pendingWrites)
    /\ store' = pendingWrites[i].value
    /\ pendingWrites' = RemoveAt(pendingWrites, i)
    /\ persistFailed' = (persistFailed \/ PersistRejects(FALSE))
    /\ consoleErrors' = consoleErrors \cup SaveErrors(FALSE)
    /\ uncaught' = uncaught \cup AddMessageEscapes(PersistRejects(FALSE))
    /\ UNCHANGED <<messages, newMessage, loading, loadpc, now, alertVisible,
                   created, getItemCalls, setItemCalls, setItemFailed,
                   cacheAtLoad>>
    /\ lastWrite' = SettledLast(i, "resolved")
    /\ reordered' = (reordered \/ i > 1)

\* variant of setItemRejected that rolls the cache back
setItemRejectedRollback(i) ==
    /\ i \in 1..Len(pendingWrites)
    /\ pendingWrites' = RemoveAt(pendingWrites, i)
    /\ messages' = [messages EXCEPT !.items = Tail(messages.items)]
    /\ setItemFailed' = TRUE
    /\ persistFailed' = (persistFailed \/ PersistRejects(TRUE))
    /\ consoleErrors' = consoleErrors \cup SaveErrors(TRUE)
    /\ uncaught' = uncaught \cup AddMessageEscapes(PersistRejects(TRUE))
    /\ UNCHANGED <<newMessage, loading, store, loadpc, now, alertVisible,
                   created, getItemCalls, setItemCalls, cacheAtLoad>>
    /\ lastWrite' = SettledLast(i, "rejected")
    /\ reordered' = (reordered \/ i > 1)

\* variant of setItemRejected whose catch block removes the stored value
setItemRejectedClears(i) ==
    /\ i \in 1..Len(pendingWrites)
    /\ pendingWrites' = RemoveAt(pendingWrites, i)
    /\ store' = [kind |-> "null", items |-> <<>>]
    /\ setItemFailed' = TRUE
    /\ persistFailed' = (persistFailed \/ PersistRejects(TRUE))
    /\ consoleErrors' = consoleErrors \cup SaveErrors(TRUE)
    /\ uncaught' = uncaught \cup AddMessageEscapes(PersistRejects(TRUE))
    /\ UNCHANGED <<messages, newMessage, loading, loadpc, now, alertVisible,
                   created, getItemCalls, setItemCalls, cacheAtLoad>>
    /\ lastWrite' = SettledLast(i, "rejected")
    /\ reordered' = (reordered \/ i > 1)

\* the i-th pending setItem rejects: the store keeps its value
setItemRejected(i) ==
    /\ i \in 1..Len(pendingWrites)
    /\ pendingWrites' = RemoveAt(pendingWrites, i)
    /\ setItemFailed' = TRUE
    /\ persistFailed' = (persistFailed \/ PersistRejects(TRUE))
    /\ consoleErrors' = consoleErrors \cup SaveErrors(TRUE)
    /\ uncaught' = uncaught \cup AddMessageEscapes(PersistRejects(TRUE))
    /\ UNCHANGED <<messages, newMessage, loading, store, loadpc, now,
                   alertVisible, created, getItemCalls, setItemCalls,
                   cacheAtLoad>>
    /\ lastWrite' = SettledLast(i, "rejected")
    /\ reordered' = (reordered \/ i > 1)

\* ---- the environment ----
\* the user closes the Alert dialog
dismissAlert ==
    /\ alertVisible
    /\ alertVisible' = FALSE
    /\ UNCHANGED <<messages, newMessage, loading, store, loadpc,
                   pendingWrites, now, consoleErrors, uncaught, created,
                   getItemCalls, setItemCalls, setItemFailed,
                   persistFailed, cacheAtLoad>>
    /\ UNCHANGED writeVars

\* a millisecond passes
\* Date.now() is taken to be non-decreasing
tick ==
    /\ now < MaxClock
    /\ now' = now + 1
    /\ UNCHANGED <<messages, newMessage, loading, store, loadpc,
                   pendingWrites, alertVisible, consoleErrors, uncaught,
                   created, getItemCalls, setItemCalls, setItemFailed,
                   persistFailed, cacheAtLoad>>
    /\ UNCHANGED writeVars

Next ==
    \/ useEffect
    \/ loadResolved
    \/ loadRejected
    \/ \E t \in Inputs \cup {<<>>} : onChangeText(t)
    \/ addMessage
    \/ \E i \in 1..MaxPending : setItemResolved(i)
    \/ \E i \in 1..MaxPending : setItemRejected(i)
    \/ dismissAlert
    \/ tick

Spec == Init /\ [][Next]_vars

\* React runs the effect after the first render, and the promise of getItem
\* settles; nothing is assumed about the user, the clock or the writes
SpecLive ==
    /\ Init
    /\ [][Next]_vars
    /\ WF_vars(useEffect)
    /\ WF_vars(loadResolved \/ loadRejected)

\* ======================= properties =======================

\* the user's text has no character other than whitespace
Blank(text) == \A i \in 1..Len(text) : text[i] \in Whitespace

\* a step of addMessage that got past validation: a Message was constructed
MessageConstructed == Len(created') = Len(created) + 1

\* a step of addMessage that performed the insert (the spread did not throw)
Inserted == MessageConstructed /\ messages.kind = "array"

NewestCreated == created[Len(created)]

\* load ended with the empty cache
StartedEmpty == ~loading /\ cacheAtLoad = EmptyArray

\* C1: in every reachable state the in-memory cache holds at most
\* MAX_MESSAGES entries, whatever the store held at startup.
C1_CacheWithinLimit == Len(messages.items) <= MAX_MESSAGES

\* C2: a valid addMessage on a cache of length L yields the new message at
\* index 0 followed by the first min(L, MAX_MESSAGES - 1) entries of the
\* previous cache, in their previous order.
C2_PrependThenTruncate ==
    [][Inserted =>
         /\ messages'.kind = "array"
         /\ messages'.items =
               <<created'[Len(created')]>> \o
               SubSeq(messages.items, 1,
                      Min(Len(messages.items), MAX_MESSAGES - 1))]_vars

\* a full cache received one more message and lost its tail
C2_Witness ==
    /\ StartedEmpty
    /\ Len(created) > MAX_MESSAGES
    /\ Len(messages.items) = MAX_MESSAGES
    /\ messages.items[1] = NewestCreated
    /\ messages.items[1] # messages.items[2]

\* C3: from an empty cache, after n valid addMessage calls and any number of
\* blank ones the cache length is min(MAX_MESSAGES, n); one valid insert
\* takes length L to min(MAX_MESSAGES, L + 1).
C3_LengthIsMinOfLimitAndInserts ==
    /\ [](StartedEmpty =>
            /\ messages.kind = "array"
            /\ Len(messages.items) = Min(MAX_MESSAGES, Len(created)))
    /\ [][Inserted =>
            Len(messages'.items) =
               Min(MAX_MESSAGES, Len(messages.items) + 1)]_vars

\* more valid inserts than the limit, and a blank one just rejected
C3_Witness ==
    /\ StartedEmpty
    /\ Len(created) = MAX_MESSAGES + 1
    /\ Len(messages.items) = MAX_MESSAGES
    /\ alertVisible

\* C4: from an empty cache, after M1..Mn were inserted the cache is the last
\* min(n, MAX_MESSAGES) of them in reverse insertion order, also when
\* timestamps tie.
C4_NewestFirstByInsertion ==
    StartedEmpty =>
        messages.items = Reverse(LastN(created, MAX_MESSAGES))

\* six inserts, M1 gone and different from M2, the two newest messages
\* made in the same millisecond
C4_Witness ==
    /\ StartedEmpty
    /\ Len(created) = MAX_MESSAGES + 1
    /\ messages.items[MAX_MESSAGES] = created[2]
    /\ \A i \in 1..MAX_MESSAGES : messages.items[i] # created[1]
    /\ messages.items[1].timestamp = messages.items[2].timestamp
    /\ messages.items[1].id = messages.items[2].id

\* C5: addMessage on blank input raises the validation alert and changes no
\* data: the cache stays as it is, no Message is constructed, no write is
\* issued.
C5_BlankInputIsNoOp ==
    [][(~loading /\ Blank(newMessage)) =>
         /\ messages' = messages
         /\ created' = created
         /\ setItemCalls' = setItemCalls
         /\ Len(pendingWrites') <= Len(pendingWrites)
         /\ (addMessage => alertVisible' /\ newMessage' = newMessage)]_vars

\* whitespace was sent on a non-empty cache while a write was pending
C5_Witness ==
    /\ alertVisible
    /\ newMessage = <<" ", "\n">>
    /\ Len(messages.items) > 0
    /\ Len(pendingWrites) > 0

\* C6: every accepted addMessage issues exactly one setItem under
\* "cached_messages" whose value is the whole cache as it is after the
\* insert.
C6_WritesFullUpdatedCache ==
    [][Inserted =>
         /\ setItemCalls' = setItemCalls + 1
         /\ pendingWrites' =
               Append(pendingWrites,
                      [key |-> "cached_messages",
                       value |-> JSONStringify(messages')])]_vars

\* the write of a truncated cache is in flight
C6_Witness ==
    /\ Len(created) > MAX_MESSAGES
    /\ Len(pendingWrites) > 0
    /\ pendingWrites[Len(pendingWrites)].value = JSONStringify(messages)
    /\ Len(pendingWrites[Len(pendingWrites)].value.items) = MAX_MESSAGES

\* C7 as stated: when setItem fails, saveMessagesToStorage surfaces the
\* failure to addMessage (its promise rejects).
C7_FailurePropagates == setItemFailed => persistFailed

\* C7 as amended: when setItem fails, saveMessagesToStorage catches the
\* failure and logs it; its promise does not reject, nothing reaches
\* addMessage, and no write is issued again.
C7_FailureCaughtAndLogged ==
    setItemFailed =>
        /\ ~persistFailed
        /\ "addMessage" \notin uncaught
        /\ "Error saving messages:" \in consoleErrors
        /\ setItemCalls = Len(created)

\* a write failed and nothing is pending
C7_Witness ==
    /\ setItemFailed
    /\ pendingWrites = <<>>
    /\ "Error saving messages:" \in consoleErrors

\* C8: when the write of an accepted addMessage fails the cache keeps the
\* inserted message and no other write is issued for that insert.
C8_NoRollbackNoRetry ==
    setItemFailed =>
        /\ messages.kind = "array"
        /\ messages.items =
              Slice(Reverse(created) \o cacheAtLoad.items, MAX_MESSAGES)
        /\ setItemCalls = Len(created)

\* the only write failed: the store still has its startup value, the cache
\* has the message
C8_Witness ==
    /\ setItemFailed
    /\ Len(created) = 1
    /\ pendingWrites = <<>>
    /\ messages.items[1] = NewestCreated
    /\ store # JSONStringify(messages)

\* C9: no exception escapes load or addMessage, whatever the store does.
C9_NothingEscapes == uncaught = {}

\* C10: when the stored string does not parse, load completes and the cache
\* is the empty sequence.
C10_UnparseableLoadsEmpty ==
    (loadpc = "done" /\ store.kind = "bad") =>
        /\ ~loading
        /\ cacheAtLoad = EmptyArray
        /\ (created = <<>> => messages = EmptyArray)
        /\ uncaught = {}

\* load ran on an unparseable value and logged the SyntaxError
C10_Witness ==
    /\ loadpc = "done"
    /\ store.kind = "bad"
    /\ ~loading
    /\ "Error loading messages:" \in consoleErrors

\* JSON.parse threw in loadMessagesFromStorage
ParseFailedAtLoad ==
    loadpc = "done" /\ "Error loading messages:" \in consoleErrors

\* the stored string is JSON but not a list of Message
NotAMessageList(str) ==
    \/ str.kind = "object"
    \/ /\ str.kind = "array"
       /\ \E i \in 1..Len(str.items) : ~IsMessage(str.items[i])

\* C11: when the stored value parses but is not a sequence of Message, the
\* cache after load is the empty sequence.
C11_NonListLoadsEmpty ==
    (loadpc = "done" /\ created = <<>> /\ NotAMessageList(store)) =>
        messages = EmptyArray

C14_ReadFailureLoadsEmpty ==
    loadpc = "failed" =>
        /\ ~loading
        /\ cacheAtLoad = EmptyArray
        /\ messages.kind = "array"
        /\ (created = <<>> => messages = EmptyArray)
        /\ "Error loading messages:" \in consoleErrors
        /\ uncaught = {}
        /\ (alertVisible => Blank(newMessage))

\* the read failed and a message was inserted afterwards
C14_Witness ==
    /\ loadpc = "failed"
    /\ ~loading
    /\ Len(created) = 1
    /\ messages.items = <<NewestCreated>>

\* C15: when the store has no value under the key at startup, the cache
\* after load is the empty sequence.
C15_AbsentLoadsEmpty ==
    (loadpc = "done" /\ store.kind = "null") =>
        /\ ~loading
        /\ cacheAtLoad = EmptyArray
        /\ (created = <<>> => messages = EmptyArray /\ Len(messages.items) = 0)

\* load resolved with null and logged nothing
C15_Witness ==
    /\ loadpc = "done"
    /\ store.kind = "null"
    /\ ~loading
    /\ consoleErrors = {}
    /\ messages = EmptyArray

\* C16: no two entries of the cache share an id, also when two inserts are
\* accepted at the same reading of the clock.
C16_IdsUnique ==
    \A i, j \in 1..Len(messages.items) :
        (i < j /\ IsMessage(messages.items[i]) /\ IsMessage(messages.items[j]))
            => messages.items[i].id # messages.items[j].id

\* the cache as it was after the k-th constructed message was inserted
CacheAfter(k) ==
    [kind |-> "array",
     items |-> Slice(Reverse(SubSeq(created, 1, k)) \o cacheAtLoad.items,
                     MAX_MESSAGES)]

\* C17: a failed write leaves the persisted value as it was; the persisted
\* value is always the startup value or the full cache held after some
\* accepted insert.
C17_FailedWriteKeepsStore ==
    /\ [](\/ store \in StartupValues
          \/ \E k \in 1..Len(created) : store = JSONStringify(CacheAfter(k)))
    /\ [][/\ (\E i \in 1..MaxPending : setItemRejected(i)) => store' = store
          /\ store' # store =>
                \E k \in 1..Len(created) :
                    store' = JSONStringify(CacheAfter(k))]_vars

\* the first write succeeded, the second failed: the store has the cache of
\* the first insert
C17_Witness ==
    /\ setItemFailed
    /\ lastWrite = "rejected"
    /\ pendingWrites = <<>>
    /\ Len(created) = 2
    /\ store = JSONStringify(CacheAfter(1))
    /\ store # JSONStringify(messages)

\* the cache of a new session once its load resolved with the string str:
\* messages starts as [] and loadMessagesFromStorage runs on str
FreshLoad(str) == LoadedMessages(str, EmptyArray)

\* the setItem issued last succeeded and no setItem is pending
LastWriteDone == pendingWrites = <<>> /\ lastWrite = "resolved"

\* C18 as stated: if the last write of the session succeeded and no write is
\* pending, the load of a fresh session yields the cache of this session.
C18_RoundTrip == LastWriteDone => FreshLoad(store) = messages

\* C18 as amended: the same, provided the store settled the writes of the
\* session in the order in which they were issued.
C18_RoundTripInOrder ==
    (LastWriteDone /\ ~reordered) => FreshLoad(store) = messages

\* a full cache was written in order; the stored text is the escaped form of
\* the text in memory and loads back to it
C18_Witness ==
    /\ LastWriteDone
    /\ ~reordered
    /\ Len(created) > MAX_MESSAGES
    /\ store.items[1].text # messages.items[1].text
    /\ store.items[1].timestamp # store.items[MAX_MESSAGES].timestamp
    /\ FreshLoad(store) = messages

\* t is text without its leading and trailing whitespace
IsTrimOf(t, text) ==
    /\ t # <<>>
    /\ t[1] \notin Whitespace
    /\ t[Len(t)] \notin Whitespace
    /\ \E i \in 0..Len(text) :
          /\ i + Len(t) <= Len(text)
          /\ SubSeq(text, i + 1, i + Len(t)) = t
          /\ Blank(SubSeq(text, 1, i))
          /\ Blank(SubSeq(text, i + Len(t) + 1, Len(text)))

\* C19: every message made by addMessage has the input without its
\* surrounding whitespace as text, and that text is not empty; an insert
\* never puts a blank text into the cache or into a write.
C19_TextIsTrimmedInput ==
    /\ [](\A i \in 1..Len(created) : ~Blank(created[i].text))
    /\ [][MessageConstructed =>
            IsTrimOf(created'[Len(created')].text, newMessage)]_vars
    /\ [][Inserted =>
            /\ messages'.items[1].text = created'[Len(created')].text
            /\ Unescape(pendingWrites'[Len(pendingWrites')].value.items[1].text)
                  = created'[Len(created')].text]_vars

\* the input had whitespace around it and inside it; the message kept the
\* inner one only
C19_Witness ==
    /\ Len(created) > 0
    /\ Len(messages.items) > 0
    /\ messages.items[1] = NewestCreated
    /\ NewestCreated.text = <<"a", "\n", Quote>>
    /\ Len(pendingWrites) > 0

\* C20: an insert does not wait for the writes of earlier inserts: whenever
\* the screen takes input, the text is valid and the cache is a list, Send
\* performs the insert, whatever is pending (up to the bounds of the model).
\* With a store that settles overlapping writes in either order this makes
\* C20_Witness reachable.
C20_InsertNotBlockedByWrites ==
    (/\ Interactive
     /\ ~Blank(newMessage)
     /\ messages.kind = "array"
     /\ Len(created) < MaxCreated
     /\ Len(pendingWrites) < MaxPending)
        => ENABLED addMessageAccepted(now)

\* two overlapping writes both succeeded, the older one was applied last:
\* the store holds the cache of the first insert, the screen the one of the
\* second
C20_Witness ==
    /\ Len(created) = 2
    /\ setItemCalls = 2
    /\ pendingWrites = <<>>
    /\ ~setItemFailed
    /\ reordered
    /\ store = JSONStringify(CacheAfter(1))
    /\ store # JSONStringify(messages)

\* C21: if the store settles the writes in the order in which they were
\* issued, then whenever no write is pending and the write issued last
\* succeeded, the persisted value is the encoding of the in-memory cache.
C21_StoreCatchesUp ==
    (~reordered /\ LastWriteDone) => store = JSONStringify(messages)

\* a write failed, so store and cache differed; the next write succeeded and
\* they agree again
C21_Witness ==
    /\ ~reordered
    /\ LastWriteDone
    /\ setItemFailed
    /\ Len(created) > MAX_MESSAGES
    /\ store = JSONStringify(messages)

\* C22: while the startup load is pending no addMessage can run, so the
\* read comes before every write and the result of load replaces nothing
\* but the initial empty cache.
C22_NoInsertWhileLoading ==
    /\ [](loading =>
            /\ ~ENABLED addMessage
            /\ created = <<>>
            /\ setItemCalls = 0
            /\ pendingWrites = <<>>)
    /\ [](setItemCalls > 0 =>
            getItemCalls = 1 /\ loadpc \in {"done", "failed"})
    /\ [][(loadpc = "reading" /\ loadpc' # loadpc) =>
            created = <<>> /\ messages = EmptyArray]_vars

\* a stored message was loaded first, a message was inserted on top of it
\* afterwards and written
C22_Witness ==
    /\ ~loading
    /\ getItemCalls = 1
    /\ setItemCalls = 1
    /\ Len(cacheAtLoad.items) = 1
    /\ Len(messages.items) = 2
    /\ messages.items[1] = NewestCreated
    /\ messages.items[2] = cacheAtLoad.items[1]

\* C23: provided the read settles, loading becomes false on every path of
\* load, and once false it stays false.
C23_LoadingEnds ==
    /\ <>(~loading)
    /\ [][~loading => ~loading']_vars

\* loading ended on the path where the stored string is empty
C23_Witness ==
    /\ ~loading
    /\ loadpc = "done"
    /\ store.kind = "empty"
    /\ created = <<>>

\* C24: an accepted addMessage empties the input buffer, so Send pressed
\* again without typing is rejected and inserts nothing; a rejected
\* addMessage leaves the buffer as it was.
C24_InputClearedOnAccept ==
    /\ [][Inserted => newMessage' = <<>>]_vars
    /\ [](newMessage = <<>> => ~ENABLED addMessageAccepted(now))
    /\ [][(addMessage /\ newMessage = <<>>) =>
            /\ alertVisible'
            /\ created' = created
            /\ messages' = messages]_vars
    /\ [][(addMessage /\ Blank(newMessage)) => newMessage' = newMessage]_vars

\* one message was sent, Send was pressed again on the emptied buffer and
\* the alert came up; the cache still has the one message
C24_Witness ==
    /\ alertVisible
    /\ newMessage = <<>>
    /\ Len(created) = 1
    /\ messages.items = <<NewestCreated>>
====
